---------------------------- MODULE Spec2Model ----------------------------
(* QueryTube (src/app.py): module-level asset loading, the lru_cache'd       *)
(* encode_query, and the search_generator handler that Gradio drives.        *)
(*                                                                           *)
(* Texts are sequences of one-character strings.  Vectors are pairs of       *)
(* integers.  A cosine similarity is kept exactly, as the record             *)
(* [num, den] standing for num / sqrt(den), so that equal and unequal        *)
(* scores are decided without rounding.  Corpus indices are 0-based, as in   *)
(* numpy and pandas.  A record of the CSV is modelled by its presence only:  *)
(* the HTML markup built from its fields (lines 57-82) is not modelled, the  *)
(* df.iloc[idx] lookup that precedes it is.                                  *)
EXTENDS Integers, Sequences, FiniteSets, TLC

VARIABLES
    app_data_csv,        \* the file app_data.csv: whether present, its number of rows
    app_embeddings_npy,  \* the file app_embeddings.npy: whether present, its rows
    phase,               \* "loading" | "serving" | "exited"
    stdout,              \* the messages printed by the module-level code
    exit_status,         \* <<>> while the process runs, else << its status >>
    df,                  \* number of rows of the loaded DataFrame
    corpus_embeddings,   \* the loaded embedding matrix, a sequence of rows
    cache,               \* lru_cache of encode_query: entries, oldest first
    model_calls,         \* number of calls of model.encode
    rq,                  \* the generator: "idle" | "searching" | "returned" | "raised"
    query,               \* argument of the current search_generator call
    k,                   \* argument of the current search_generator call
    out,                 \* what the current call has yielded so far
    query_embedding,     \* local of search_generator / result of encode_query
    top_k_indices,       \* local of search_generator
    err,                 \* the exception that left the current call, or NoError
    did,                 \* the steps the current call has entered
    n_calls,             \* search calls made, or new texts sent to encode_query, so far
    recency,             \* history: texts encoded successfully, least recent first
    first,               \* history: text -> the vector its first call returned
    lastCall             \* history: what the last encode_query call did

vars == <<app_data_csv, app_embeddings_npy, phase, stdout, exit_status, df,
          corpus_embeddings, cache, model_calls, rq, query, k, out,
          query_embedding, top_k_indices, err, did, n_calls, recency, first,
          lastCall>>

-----------------------------------------------------------------------------
(* Bounds of the exploration.                                                *)

MaxRows == 2
MaxSearches == 2
MaxDistinct == 130
MaxExtraCalls == 2
Headroom == 6

(* Program constants.                                                        *)

maxsize == 128
DefaultK == 5

NoError == "none"
None == <<>>

-----------------------------------------------------------------------------
(* Texts.                                                                    *)

Chars == <<"a", " ", "A">>

Queries ==
    { <<>>, <<" ">>, <<" ", " ">>, <<"a">>, <<" ", "a">> }

RECURSIVE lstrip(_)
lstrip(s) ==
    IF s # <<>> /\ Head(s) = " " THEN lstrip(Tail(s)) ELSE s

RECURSIVE rstrip(_)
rstrip(s) ==
    IF s # <<>> /\ s[Len(s)] = " " THEN rstrip(SubSeq(s, 1, Len(s) - 1)) ELSE s

\* The text as it is: "if not query".
no_strip(s) == s

\* str.strip(): the text without its leading and trailing whitespace.
strip(s) == rstrip(lstrip(s))

\* The n-th text in length-then-alphabet order: the texts a caller may send.
RECURSIVE Str(_)
Str(n) ==
    IF n = 0 THEN <<>>
    ELSE Append(Str((n - 1) \div Len(Chars)), Chars[((n - 1) % Len(Chars)) + 1])

-----------------------------------------------------------------------------
(* Vectors and cosine similarity.                                            *)

RowVecs == { <<1, 0>>, <<0, 1>>, <<-1, 0>> }

RECURSIVE RowSeqs(_)
RowSeqs(n) ==
    IF n = 0 THEN { <<>> }
    ELSE RowSeqs(n - 1) \cup
         { Append(s, v) : s \in { t \in RowSeqs(n - 1) : Len(t) = n - 1 }, v \in RowVecs }

CharCode(c) == CASE c = " " -> 1 [] c = "a" -> 2 [] c = "A" -> 3

RECURSIVE CodeSum(_, _)
CodeSum(s, weighted) ==
    IF s = <<>> THEN 0
    ELSE CodeSum(SubSeq(s, 1, Len(s) - 1), weighted)
         + (IF weighted THEN Len(s) ELSE 1) * CharCode(s[Len(s)])

\* model.encode([query]): the pretrained encoder is a fixed function of the
\* exact text; it is represented by a position-weighted character sum, which
\* separates texts that differ in case or in surrounding whitespace.
model_encode(q) == << CodeSum(q, FALSE), CodeSum(q, TRUE) >>

Dot(u, v) == u[1] * v[1] + u[2] * v[2]

\* sklearn normalises each row by its norm, a zero norm being replaced by 1.
NormSq(v) == IF Dot(v, v) = 0 THEN 1 ELSE Dot(v, v)

\* cosine_similarity(query_embedding, corpus_embeddings)[0], one score per row.
cosine_similarity(x, Y) ==
    [ i \in 1..Len(Y) |-> [ num |-> Dot(x, Y[i]), den |-> NormSq(x) * NormSq(Y[i]) ] ]

Abs(n) == IF n < 0 THEN -n ELSE n

\* a < b for a = num/sqrt(den): compare the signed squares, cross-multiplied.
ScoreLess(a, b) == a.num * Abs(a.num) * b.den < b.num * Abs(b.num) * a.den

ScoreEq(a, b) == a.num * Abs(a.num) * b.den = b.num * Abs(b.num) * a.den

\* The score of the 0-based corpus index i.
ScoreAt(sims, i) == sims[i + 1]

-----------------------------------------------------------------------------
(* Ranking: np.argsort(similarities)[-k:][::-1].                             *)

Injective(p) == \A i, j \in DOMAIN p : p[i] = p[j] => i = j

\* np.argsort(similarities): the indices in ascending order of score.  The
\* default kind is "quicksort", which is not stable: among equal scores any
\* order may come out.
ArgsortResults(sims) ==
    { p \in [ 1..Len(sims) -> 0..(Len(sims) - 1) ] :
        /\ Injective(p)
        /\ \A i, j \in 1..Len(sims) :
             i < j => ~ScoreLess(ScoreAt(sims, p[j]), ScoreAt(sims, p[i])) }

\* s[len(s) - n:], whose start wraps around once n exceeds the length.
LastKWrapped(s, n) ==
    IF n > Len(s) THEN SubSeq(s, (IF n > 2 * Len(s) THEN 0 ELSE 2 * Len(s) - n) + 1, Len(s))
    ELSE IF n > 0 THEN SubSeq(s, Len(s) - n + 1, Len(s))
    ELSE SubSeq(s, (IF -n > Len(s) THEN Len(s) ELSE -n) + 1, Len(s))

\* s[-n:]: from max(len - n, 0) for n > 0, everything for n = 0 (-0 is 0),
\* and from min(-n, len) for n < 0.
LastK(s, n) ==
    IF n > 0 THEN SubSeq(s, (IF n > Len(s) THEN 0 ELSE Len(s) - n) + 1, Len(s))
    ELSE SubSeq(s, (IF -n > Len(s) THEN Len(s) ELSE -n) + 1, Len(s))

\* s[::-1]
Reverse(s) == [ i \in 1..Len(s) |-> s[Len(s) + 1 - i] ]

\* [-k:] without the reversal.
TopKAscending(p, n) == LastK(p, n)

\* [-k:][::-1] applied to an argsort result.
TopK(p, n) == Reverse(LastK(p, n))

-----------------------------------------------------------------------------
(* functools.lru_cache(maxsize=128) around encode_query.                     *)

\* A key that ignores surrounding whitespace.
CacheKeyStripped(q) == strip(q)

\* The key of a call with one positional str argument is the str itself.
CacheKey(q) == q

\* Position of the key in the cache, 0 when it is not there.
CacheIndex(c, key) ==
    IF \E i \in 1..Len(c) : c[i].key = key
    THEN CHOOSE i \in 1..Len(c) : c[i].key = key
    ELSE 0

Remove(s, i) == SubSeq(s, 1, i - 1) \o SubSeq(s, i + 1, Len(s))

\* A hit that leaves the order alone (first in, first out).
CacheHitNoTouch(c, i) == c

\* A hit makes the entry the most recently used one.
CacheHit(c, i) == Append(Remove(c, i), c[i])

\* A miss stores the result; a full cache first drops its oldest entry.
CacheInsert(c, e) ==
    IF Len(c) >= maxsize THEN Append(Tail(c), e) ELSE Append(c, e)

CacheKeys(c) == { c[i].key : i \in 1..Len(c) }

\* encode_query(q) on cache c.  fails: model.encode raises on this call (it
\* is called on a miss only).  An exception leaves the cache as it was.
EncodeOutcome(c, q, fails) ==
    LET i == CacheIndex(c, CacheKey(q)) IN
    IF i # 0
    THEN [ cache |-> CacheHit(c, i), invoked |-> FALSE, raised |-> FALSE,
           value |-> c[i].value ]
    ELSE IF fails
    THEN [ cache |-> c, invoked |-> TRUE, raised |-> TRUE, value |-> None ]
    ELSE [ cache |-> CacheInsert(c, [ key |-> CacheKey(q), value |-> model_encode(q) ]),
           invoked |-> TRUE, raised |-> FALSE, value |-> model_encode(q) ]

(* History of the encode_query calls, kept beside the program's state.       *)

\* The texts among the maxsize most recently (successfully) encoded ones.
Recent(r) == { r[i] : i \in { j \in 1..Len(r) : j > Len(r) - maxsize } }

Touch(r, q) ==
    LET rest == SelectSeq(r, LAMBDA t : t # q) IN Append(rest, q)

Known(f, q) == q \in DOMAIN f

\* The primed history after encode_query(q) ended with outcome o.
RecordCall(q, o) ==
    /\ recency' = IF o.raised THEN recency ELSE Touch(recency, q)
    /\ first' = IF o.raised \/ Known(first, q) THEN first ELSE first @@ (q :> o.value)
    /\ lastCall' = [ made |-> TRUE, text |-> q, known |-> Known(first, q),
                     recent |-> q \in Recent(recency), full |-> Len(cache) = maxsize,
                     invoked |-> o.invoked, raised |-> o.raised, value |-> o.value ]

NoCall ==
    [ made |-> FALSE, text |-> <<>>, known |-> FALSE, recent |-> FALSE,
      full |-> FALSE, invoked |-> FALSE, raised |-> FALSE, value |-> None ]

-----------------------------------------------------------------------------
(* Module-level loading (lines 15-30) and launch (line 188).                 *)

MsgLoading == "Loading all assets..."
MsgModel == "Loading model (multi-qa-mpnet-base-dot-v1)..."
MsgLoaded == "All assets loaded and aligned successfully."
MsgMissing == "ERROR: Could not find 'app_data.csv' or 'app_embeddings.npy'."
MsgLaunch == "Launching QueryTube (Enhanced v2.0)..."

\* exit() is called without an argument: SystemExit(None), process status 0.
ExitArgument == 0

\* pd.read_csv and np.load raise FileNotFoundError for a file that is not
\* there; the handler prints and exits.  Nothing compares the two lengths.
Startup ==
    /\ phase = "loading"
    /\ IF ~app_data_csv.present \/ ~app_embeddings_npy.present
       THEN /\ phase' = "exited"
            /\ stdout' = stdout \o << MsgMissing >>
            /\ exit_status' = << ExitArgument >>
            /\ df' = IF app_data_csv.present THEN app_data_csv.rows ELSE df
            /\ UNCHANGED corpus_embeddings
       ELSE /\ phase' = "serving"
            /\ stdout' = stdout \o << MsgModel, MsgLoaded, MsgLaunch >>
            /\ df' = app_data_csv.rows
            /\ corpus_embeddings' = app_embeddings_npy.rows
            /\ UNCHANGED exit_status
    /\ UNCHANGED << app_data_csv, app_embeddings_npy, cache, model_calls, rq, query,
                    k, out, query_embedding, top_k_indices, err, did, n_calls,
                    recency, first, lastCall >>

-----------------------------------------------------------------------------
(* search_generator (lines 40-84), driven by Gradio to its end.              *)

EmptyQuery == [ kind |-> "EmptyQuery", indices |-> <<>> ]
Searching == [ kind |-> "Searching", indices |-> <<>> ]
NoResults == [ kind |-> "NoResults", indices |-> <<>> ]
Results(top) == [ kind |-> "Results", indices |-> top ]

Ks == ((-1)..(MaxRows + 1)) \cup { DefaultK }

\* The call up to its first yield: the empty-query message, after which the
\* generator returns, or the "Searching..." status.
SearchCall(q, kk) ==
    /\ phase = "serving"
    /\ rq \in { "idle", "returned", "raised" }
    /\ n_calls < MaxSearches
    /\ n_calls' = n_calls + 1
    /\ query' = q
    /\ k' = kk
    /\ did' = {}
    /\ err' = NoError
    /\ query_embedding' = None
    /\ top_k_indices' = <<>>
    /\ IF strip(q) = <<>>
       THEN out' = << EmptyQuery >> /\ rq' = "returned"
       ELSE out' = << Searching >> /\ rq' = "searching"
    /\ UNCHANGED << app_data_csv, app_embeddings_npy, phase, stdout, exit_status, df,
                    corpus_embeddings, cache, model_calls, recency, first, lastCall >>

\* The first row index of top that df does not have, as a set (empty: none).
OutOfRange(top, rows) == { i \in 1..Len(top) : top[i] >= rows }

\* From the first yield to the end: encode, score, rank, look the rows up.
\* An exception leaves the generator; Gradio reports it and keeps serving.
SearchResume(fails) ==
    /\ phase = "serving"
    /\ rq = "searching"
    /\ LET o == EncodeOutcome(cache, query, fails)
           sims == cosine_similarity(o.value, corpus_embeddings)
           enc == { "encode_query" } \cup (IF o.invoked THEN { "model.encode" } ELSE {})
       IN
       /\ cache' = o.cache
       /\ model_calls' = model_calls + (IF o.invoked THEN 1 ELSE 0)
       /\ query_embedding' = o.value
       /\ RecordCall(query, o)
       /\ IF o.raised
          THEN /\ rq' = "raised"
               /\ err' = "EncodingFailure"
               /\ did' = did \cup enc
               /\ UNCHANGED << out, top_k_indices >>
          ELSE IF Len(corpus_embeddings) = 0
          THEN \* check_pairwise_arrays refuses an array with 0 samples
               /\ rq' = "raised"
               /\ err' = "ValueError"
               /\ did' = did \cup enc \cup { "cosine_similarity" }
               /\ UNCHANGED << out, top_k_indices >>
          ELSE \E p \in ArgsortResults(sims) :
               LET top == TopK(p, k) IN
               /\ top_k_indices' = top
               /\ IF Len(top) = 0
                  THEN /\ out' = Append(out, NoResults)
                       /\ rq' = "returned"
                       /\ err' = NoError
                       /\ did' = did \cup enc \cup { "cosine_similarity", "argsort" }
                  ELSE IF OutOfRange(top, df) # {}
                  THEN /\ rq' = "raised"
                       /\ err' = "IndexError"
                       /\ did' = did \cup enc \cup { "cosine_similarity", "argsort", "df.iloc" }
                       /\ UNCHANGED out
                  ELSE /\ out' = Append(out, Results(top))
                       /\ rq' = "returned"
                       /\ err' = NoError
                       /\ did' = did \cup enc \cup { "cosine_similarity", "argsort", "df.iloc" }
    /\ UNCHANGED << app_data_csv, app_embeddings_npy, phase, stdout, exit_status, df,
                    corpus_embeddings, query, k, n_calls >>

-----------------------------------------------------------------------------
(* The whole program: any two files, then searches.                          *)

CsvFiles ==
    { [ present |-> FALSE, rows |-> 0 ] } \cup
    { [ present |-> TRUE, rows |-> n ] : n \in 0..MaxRows }

NpyFiles ==
    { [ present |-> FALSE, rows |-> <<>> ] } \cup
    { [ present |-> TRUE, rows |-> Y ] : Y \in RowSeqs(MaxRows) }

Fresh ==
    /\ phase = "loading"
    /\ stdout = << MsgLoading >>
    /\ exit_status = <<>>
    /\ df = 0
    /\ corpus_embeddings = <<>>
    /\ cache = <<>>
    /\ model_calls = 0
    /\ rq = "idle"
    /\ query = <<>>
    /\ k = DefaultK
    /\ out = <<>>
    /\ query_embedding = None
    /\ top_k_indices = <<>>
    /\ err = NoError
    /\ did = {}
    /\ n_calls = 0
    /\ recency = <<>>
    /\ first = <<>>
    /\ lastCall = NoCall

Init ==
    /\ app_data_csv \in CsvFiles
    /\ app_embeddings_npy \in NpyFiles
    /\ Fresh

Next ==
    \/ Startup
    \/ \E q \in Queries, kk \in Ks : SearchCall(q, kk)
    \/ \E fails \in BOOLEAN : SearchResume(fails)

Spec == Init /\ [][Next]_vars


-----------------------------------------------------------------------------
(* encode_query called on its own, over more texts than the cache holds.     *)

\* Texts that are sent again and again; every other text is sent once.
Probes == { <<"a">>, <<"a", " ">> }

\* A text never sent so far.  The cache tells texts apart by equality
\* alone, so the new texts are taken in the order of Str.
NextNew == Str(n_calls)

\* Repeated and failing calls are explored once the cache is this close to
\* its capacity; before that, every call is a new text that is encoded.
WarmedUp == Len(cache) + Headroom >= maxsize

\* One call encode_query(q) from the serving process.
EncodeCall(q, fails) ==
    /\ phase = "serving"
    /\ rq # "searching"
    /\ LET o == EncodeOutcome(cache, q, fails)
           new == q = NextNew /\ ~o.raised
       IN
       /\ \/ q = NextNew /\ n_calls < MaxDistinct
          \/ q \in Probes /\ Known(first, q)
       /\ ~new => WarmedUp
       /\ (~new /\ o.invoked) => model_calls - n_calls < MaxExtraCalls
       /\ n_calls' = IF new THEN n_calls + 1 ELSE n_calls
       /\ cache' = o.cache
       /\ model_calls' = model_calls + (IF o.invoked THEN 1 ELSE 0)
       /\ RecordCall(q, o)
    /\ UNCHANGED << app_data_csv, app_embeddings_npy, phase, stdout, exit_status, df,
                    corpus_embeddings, rq, query, k, out, query_embedding,
                    top_k_indices, err, did >>

\* The process once Startup has run on a one-row corpus, before any call.
InitCache ==
    /\ app_data_csv = [ present |-> TRUE, rows |-> 1 ]
    /\ app_embeddings_npy = [ present |-> TRUE, rows |-> << <<1, 0>> >> ]
    /\ phase = "serving"
    /\ stdout = << MsgLoading, MsgModel, MsgLoaded, MsgLaunch >>
    /\ exit_status = <<>>
    /\ df = 1
    /\ corpus_embeddings = << <<1, 0>> >>
    /\ cache = <<>>
    /\ model_calls = 0
    /\ rq = "idle"
    /\ query = <<>>
    /\ k = DefaultK
    /\ out = <<>>
    /\ query_embedding = None
    /\ top_k_indices = <<>>
    /\ err = NoError
    /\ did = {}
    /\ n_calls = 0
    /\ recency = <<>>
    /\ first = <<>>
    /\ lastCall = NoCall

NextCache == \E q \in Probes \cup { NextNew }, fails \in BOOLEAN : EncodeCall(q, fails)

SpecCache == InitCache /\ [][NextCache]_vars


-----------------------------------------------------------------------------
(* Vocabulary of the properties.                                             *)

\* The text is empty or whitespace only (stated without strip).
Blank(q) == \A i \in 1..Len(q) : q[i] = " "

\* Corpus size as the ranking sees it.
N == Len(corpus_embeddings)

\* The current call has reached line 50: top_k_indices is computed.
Produced == phase = "serving" /\ "argsort" \in did

\* The score of the corpus index at position i of the ranked result.
RankScore(i) ==
    ScoreAt(cosine_similarity(query_embedding, corpus_embeddings), top_k_indices[i])

Positions == 1..Len(top_k_indices)

Returned == { top_k_indices[i] : i \in Positions }

NonIncreasing ==
    \A i, j \in Positions : i < j => ~ScoreLess(RankScore(i), RankScore(j))

StrictlyDescending ==
    \A i, j \in Positions : i < j => ScoreLess(RankScore(j), RankScore(i))

LastOut == out[Len(out)]

\* The current call is over, with a return or with an exception.
Over == phase = "serving" /\ n_calls > 0 /\ rq \in { "returned", "raised" }

-----------------------------------------------------------------------------
(* C1.  Non-blank query, 1 <= k <= N.                                        *)

\* C1 as stated, over a corpus of as many records as embedding rows: the
\* ranked result holds exactly k corpus indices whose scores are strictly
\* descending from first to last.
C1_StrictlyDescending ==
    (Produced /\ ~Blank(query) /\ k >= 1 /\ k <= N /\ df = N)
        => /\ Len(top_k_indices) = k
           /\ Returned \subseteq 0..(N - 1)
           /\ StrictlyDescending

\* C1 as amended: the ranked result holds exactly k distinct corpus indices
\* whose scores never increase from first to last (equal scores may follow
\* each other; where two scores differ the higher comes first), and with as
\* many records as embedding rows the search returns it.
C1_NonIncreasing ==
    (Produced /\ ~Blank(query) /\ k >= 1 /\ k <= N)
        => /\ Len(top_k_indices) = k
           /\ Returned \subseteq 0..(N - 1)
           /\ Cardinality(Returned) = k
           /\ NonIncreasing
           /\ df = N => (rq = "returned" /\ LastOut = Results(top_k_indices))

\* A search for k = 2 of two rows with different scores has returned them.
C1_Witness ==
    /\ Produced /\ rq = "returned" /\ ~Blank(query)
    /\ k = 2 /\ N = 2
    /\ LastOut = Results(top_k_indices)
    /\ ScoreLess(RankScore(2), RankScore(1))

-----------------------------------------------------------------------------
(* C2.  Ties.                                                                *)

\* C2 as stated, for a search with k >= 1 over a corpus of as many records
\* as embedding rows: of two returned indices with exactly equal scores, the
\* smaller index comes first in the ranked result.
C2_TiesInCorpusOrder ==
    (Produced /\ k >= 1 /\ df = N)
        => \A i, j \in Positions :
             (i < j /\ ScoreEq(RankScore(i), RankScore(j)))
                 => top_k_indices[i] < top_k_indices[j]

-----------------------------------------------------------------------------
(* C3.  Empty and whitespace-only queries.                                   *)

\* C3: a call with a blank query has yielded the EmptyQuery signal and
\* nothing else, has returned, and has entered no step (no encode_query, no
\* model.encode, no cosine_similarity, no ranking); no blank text is ever
\* passed to encode_query nor stored as a cache key by a search.
C3_EmptyQuerySignal ==
    /\ (phase = "serving" /\ n_calls > 0 /\ Blank(query))
          => /\ rq = "returned"
             /\ out = << EmptyQuery >>
             /\ did = {}
             /\ err = NoError
    /\ (lastCall.made => ~Blank(lastCall.text))
    /\ \A i \in 1..Len(cache) : ~Blank(cache[i].key)

\* A whitespace-only query was answered after an earlier search had filled
\* the cache: the cache and the call count of the model are those of before.
C3_Witness ==
    /\ phase = "serving" /\ query = << " ", " " >> /\ rq = "returned"
    /\ out = << EmptyQuery >>
    /\ Len(cache) = 1 /\ model_calls = 1 /\ n_calls = 2

-----------------------------------------------------------------------------
(* C4.  Records and embeddings of different lengths.                         *)

\* C4 as stated: with N records and M # N embedding rows on disk the process
\* never serves, and no search looks a record up outside the records.
C4_MisalignedNeverServes ==
    (app_data_csv.present /\ app_embeddings_npy.present
        /\ app_data_csv.rows # Len(app_embeddings_npy.rows))
        => (phase # "serving" /\ err # "IndexError")

-----------------------------------------------------------------------------
(* C5.  The cache of encode_query (checked under SpecCache).                 *)

\* C5: the cache never holds more than 128 entries, nor one key twice; it
\* holds exactly the (at most 128) most recently used distinct texts, so
\* that each insertion into a full cache has evicted the least recently used
\* one, a hit counting as a use; and a call invokes the model exactly when
\* its text was not among them.
C5_BoundedLRU ==
    /\ Len(cache) <= maxsize
    /\ Cardinality(CacheKeys(cache)) = Len(cache)
    /\ CacheKeys(cache) = Recent(recency)
    /\ \A i \in 1..Len(cache) :
         cache[i].key = recency[Len(recency) - Len(cache) + i]
    /\ lastCall.made => (lastCall.invoked <=> ~lastCall.recent)

\* The cache was full, a text evicted earlier was encoded again, and the
\* model was invoked for it.
C5_Witness ==
    /\ Len(cache) = maxsize
    /\ lastCall.made /\ lastCall.full
    /\ lastCall.known /\ ~lastCall.recent
    /\ lastCall.invoked /\ ~lastCall.raised
    /\ model_calls > Len(recency)

-----------------------------------------------------------------------------
(* C6.  A failing embedding computation.                                     *)

\* C6 as stated: when model.encode fails during a search (k >= 1, a corpus
\* of at least one row and as many records), the generator still returns,
\* its last output being the request's failure message, and no exception
\* leaves it.
C6_FailureReturned ==
    (Over /\ "model.encode" \in did /\ lastCall.raised /\ k >= 1 /\ N >= 1 /\ df = N)
        => (rq = "returned" /\ err = NoError /\ Len(out) > 1)

-----------------------------------------------------------------------------
(* C7.  A missing file at startup.                                           *)

\* C7 as stated: with either file absent, the module-level code ends in an
\* exited process that has printed the message and has a non-zero status.
C7_MissingAssetHalts ==
    (phase # "loading" /\ (~app_data_csv.present \/ ~app_embeddings_npy.present))
        => /\ phase = "exited"
           /\ \E i \in 1..Len(stdout) : stdout[i] = MsgMissing
           /\ exit_status # <<>>
           /\ exit_status[1] # 0

-----------------------------------------------------------------------------
(* C8.  k greater than the corpus size.                                      *)

-----------------------------------------------------------------------------
(* C9.  The empty corpus.                                                    *)

\* C9 as stated: a search with a non-blank query and k >= 1 over an empty
\* corpus (no records, no embedding rows), its embedding obtained, ends by
\* returning with NoResults as its last output (which is not the EmptyQuery
\* signal) and without an exception; and NoResults is only ever yielded for
\* an empty ranked result.
C9_EmptyCorpusNoResults ==
    /\ (Over /\ ~Blank(query) /\ k >= 1 /\ N = 0 /\ df = 0 /\ err # "EncodingFailure")
          => /\ rq = "returned"
             /\ err = NoError
             /\ LastOut = NoResults
             /\ NoResults # EmptyQuery
    /\ (Over /\ LastOut = NoResults) => Len(top_k_indices) = 0

-----------------------------------------------------------------------------
(* C10.  Determinism of encode_query (checked under SpecCache).              *)

\* C10: every call of encode_query that returns, returns the vector the
\* first call for the same text returned, which is the model's vector for
\* exactly that text, whether it was served from the cache, computed for the
\* first time or computed again after an eviction; and every cache entry
\* holds the vector of its own key's text.
C10_Deterministic ==
    /\ (lastCall.made /\ ~lastCall.raised)
          => /\ Known(first, lastCall.text)
             /\ lastCall.value = first[lastCall.text]
             /\ lastCall.value = model_encode(lastCall.text)
    /\ \A i \in 1..Len(cache) :
          /\ Known(first, cache[i].key)
          /\ cache[i].value = first[cache[i].key]
          /\ cache[i].value = model_encode(cache[i].key)

\* "a" was computed again after its eviction and came out as at first,
\* while "a " (another text) sits in the cache with another vector.
C10_Witness ==
    /\ lastCall.made /\ lastCall.text = << "a" >>
    /\ lastCall.known /\ lastCall.invoked /\ ~lastCall.raised
    /\ lastCall.value = first[<< "a" >>]
    /\ << "a", " " >> \in CacheKeys(cache)
    /\ first[<< "a", " " >>] # first[<< "a" >>]

=============================================================================
